---- MODULE Spec2Model ----
(***************************************************************************)
(* Triangle-splat renderer of viser: the render driver (TriangleSplats     *)
(* component), the depth-sort worker and the index buffer they share.      *)
(*                                                                         *)
(* Numbers.  Every scalar of the model is an integer count of the unit     *)
(* 2^-23.  A JavaScript number (double) holds every such count below 2^31  *)
(* exactly, and sums and products by -1, 0, 1 of them are exact, so the    *)
(* double arithmetic of the code is integer arithmetic here.  A Float32    *)
(* keeps 24 significant bits: counts below 2^24 are stored exactly, and a  *)
(* count in [2^k, 2^(k+1)), k >= 24, is rounded to the nearest multiple of *)
(* 2^(k-23), ties to the even multiple (Fround).  Typed arrays are         *)
(* functions on 0..n-1.                                                    *)
(***************************************************************************)
EXTENDS Integers, Sequences, FiniteSets, TLC

(***************************************************************************)
(* Bounds of the model.                                                    *)
(***************************************************************************)
MaxTime == 310
MaxTriangles == 3

(***************************************************************************)
(* Program constants.                                                      *)
(***************************************************************************)
SORT_THROTTLE_MS == 100
DEPTH_SCALE == 65535
NUM_BUCKETS == 65536

\* 1e-7 in units of 2^-23 is 0.8388608: an integer count is <= 1e-7 exactly
\* when it is <= floor(0.8388608).
DEPTH_RANGE_EPS == (2^23) \div (10^7)

(***************************************************************************)
(* Typed arrays and numbers.                                               *)
(***************************************************************************)
Abs(x) == IF x < 0 THEN -x ELSE x

\* new Uint32Array(n) / new Float32Array(n): n zeros.
ZeroArray(n) == [k \in 0..(n - 1) |-> 0]

ArrayLen(a) == Cardinality(DOMAIN a)

\* a[idx] = v on a typed array: a store outside 0..length-1 (or at a key
\* that is not an integer index, such as NaN) is silently ignored.
TypedArrayStore(a, idx, v) ==
    IF idx \in DOMAIN a THEN [a EXCEPT ![idx] = v] ELSE a

\* The spacing of Float32 values around a count of magnitude a.
RECURSIVE Float32Spacing(_)
Float32Spacing(a) == IF a < 2^24 THEN 1 ELSE 2 * Float32Spacing(a \div 2)

\* The store of a double into a Float32Array: round to nearest, ties to even.
Fround(x) ==
    LET s    == Float32Spacing(Abs(x))
        r    == x % s
        down == x - r
    IN  IF 2 * r < s THEN down
        ELSE IF 2 * r > s THEN down + s
        ELSE IF (down \div s) % 2 = 0 THEN down ELSE down + s

\* The store of an integer-valued double into a Uint32Array: the value modulo
\* 2^32, kept as its two 16-bit halves.
ToUint32(n) == [hi |-> (n \div 65536) % 65536, lo |-> n % 65536]

(***************************************************************************)
(* The sorter: sortAndPrepareIndexBuffer.                                  *)
(***************************************************************************)
\* Camera-space z of triangle i.
ZCam(centers, viewMatrix, i) ==
      viewMatrix[2] * centers[i * 3]
    + viewMatrix[6] * centers[i * 3 + 1]
    + viewMatrix[10] * centers[i * 3 + 2]
    + viewMatrix[14]

\* floatDepths: the Float32Array of the camera-space depths.
FloatDepths(numTriangles, centers, viewMatrix) ==
    [i \in 0..(numTriangles - 1) |-> Fround(ZCam(centers, viewMatrix, i))]

SetMin(S) == CHOOSE m \in S : \A x \in S : m <= x
SetMax(S) == CHOOSE m \in S : \A x \in S : m >= x

\* minDepth and maxDepth are taken over the doubles z_cam, before the store
\* into floatDepths (numTriangles > 0).
MinDepth(numTriangles, centers, viewMatrix) ==
    SetMin({ZCam(centers, viewMatrix, i) : i \in 0..(numTriangles - 1)})

MaxDepth(numTriangles, centers, viewMatrix) ==
    SetMax({ZCam(centers, viewMatrix, i) : i \in 0..(numTriangles - 1)})

\* range <= 1e-7.  With no triangle minDepth = Infinity and maxDepth =
\* -Infinity, so range = -Infinity and the test succeeds.
RangeTooSmall(numTriangles, centers, viewMatrix) ==
    \/ numTriangles = 0
    \/ MaxDepth(numTriangles, centers, viewMatrix)
         - MinDepth(numTriangles, centers, viewMatrix) <= DEPTH_RANGE_EPS

IdentityIndices_Unfilled(numTriangles) ==
    [k \in 0..(numTriangles * 3 - 1) |-> 0]

\* The identity index array of the small-range branch.
IdentityIndices(numTriangles) == [k \in 0..(numTriangles * 3 - 1) |-> k]

\* depthsInt[i] = Math.floor((floatDepths[i] - minDepth) * scale), scale =
\* 65535 / range, stored in a Uint32Array.
DepthsInt(numTriangles, centers, viewMatrix) ==
    LET minDepth == MinDepth(numTriangles, centers, viewMatrix)
        range    == MaxDepth(numTriangles, centers, viewMatrix) - minDepth
        fd       == FloatDepths(numTriangles, centers, viewMatrix)
    IN  [i \in 0..(numTriangles - 1) |->
            ToUint32(((fd[i] - minDepth) * DEPTH_SCALE) \div range)]

\* A Uint32 that indexes counts and offsets (65536 entries each): its value
\* hi * 65536 + lo is below 65536.
InBucketRange(d) == d.hi = 0 /\ d.lo < NUM_BUCKETS

\* counts, as the entries that were incremented: counts[depthsInt[i]]++ reads
\* undefined and stores nothing when depthsInt[i] is not below 65536.
Counts(numTriangles, depthsInt) ==
    [b \in {depthsInt[i].lo : i \in {j \in 0..(numTriangles - 1) :
                                        InBucketRange(depthsInt[j])}} |->
        Cardinality({i \in 0..(numTriangles - 1) :
                        InBucketRange(depthsInt[i]) /\ depthsInt[i].lo = b})]

\* The running sum of counts over the buckets of the set S.
RECURSIVE SumCounts(_, _)
SumCounts(counts, S) ==
    IF S = {} THEN 0
    ELSE LET b == SetMin(S) IN counts[b] + SumCounts(counts, S \ {b})

\* offsets[b] = counts[0] + ... + counts[b-1], at the buckets in use.
Offsets(counts) ==
    [b \in DOMAIN counts |->
        SumCounts(counts, {c \in DOMAIN counts : c < b})]

\* The placement loop from triangle i on: sortedIndices[offsets[depthIdx]++] = i.
\* With depthIdx outside offsets, offsets[depthIdx] is undefined, the index is
\* NaN and the store is ignored.
RECURSIVE PlaceFrom(_, _, _, _, _)
PlaceFrom(i, numTriangles, depthsInt, offsets, sortedIndices) ==
    IF i >= numTriangles THEN sortedIndices
    ELSE LET depthIdx == depthsInt[i] IN
         IF InBucketRange(depthIdx)
         THEN PlaceFrom(i + 1, numTriangles, depthsInt,
                        [offsets EXCEPT ![depthIdx.lo] = @ + 1],
                        TypedArrayStore(sortedIndices, offsets[depthIdx.lo], i))
         ELSE PlaceFrom(i + 1, numTriangles, depthsInt, offsets, sortedIndices)

\* sortedIndices after the counting sort.
SortedIndices(numTriangles, centers, viewMatrix) ==
    LET depthsInt == DepthsInt(numTriangles, centers, viewMatrix)
    IN  PlaceFrom(0, numTriangles, depthsInt,
                  Offsets(Counts(numTriangles, depthsInt)),
                  ZeroArray(numTriangles))

\* Step 4: the three corners of each triangle in sorted order.
PrepareIndexArray(numTriangles, sortedIndices) ==
    [k \in 0..(numTriangles * 3 - 1) |-> sortedIndices[k \div 3] * 3 + (k % 3)]

sortAndPrepareIndexBuffer(numTriangles, centers, viewMatrix) ==
    IF RangeTooSmall(numTriangles, centers, viewMatrix)
    THEN IdentityIndices(numTriangles)
    ELSE PrepareIndexArray(numTriangles,
                           SortedIndices(numTriangles, centers, viewMatrix))

(***************************************************************************)
(* THREE.Matrix4: the 16 elements, column-major (element col * 4 + row).   *)
(***************************************************************************)
\* Matrix4.set: the four rows, each a 4-tuple.
Matrix4Set(r0, r1, r2, r3) ==
    LET rows == <<r0, r1, r2, r3>>
    IN  [k \in 0..15 |-> rows[(k % 4) + 1][(k \div 4) + 1]]

\* new THREE.Matrix4()
Matrix4Identity ==
    Matrix4Set(<<1, 0, 0, 0>>, <<0, 1, 0, 0>>, <<0, 0, 1, 0>>, <<0, 0, 0, 1>>)

\* Matrix4.multiplyMatrices(a, b)
MultiplyMatrices(a, b) ==
    [k \in 0..15 |->
        LET row == k % 4
            col == k \div 4
        IN    a[row] * b[col * 4] + a[4 + row] * b[col * 4 + 1]
            + a[8 + row] * b[col * 4 + 2] + a[12 + row] * b[col * 4 + 3]]

\* Matrix4.equals
MatrixEquals(a, b) == \A k \in 0..15 : a[k] = b[k]

(***************************************************************************)
(* The inputs the model draws from.                                        *)
(***************************************************************************)
\* Depths are taken in the Float32 binade [2^25, 2^26) (4 <= |z| < 8), where
\* Float32 values are 4 units apart.
Base == 2^25

\* Inverse world matrix of a camera looking down -z from z = p.
CameraAt(p) ==
    Matrix4Set(<<1, 0, 0, 0>>, <<0, 1, 0, 0>>, <<0, 0, 1, -p>>, <<0, 0, 0, 1>>)

\* The same camera turned half a turn about the y axis.
CameraBehind(p) ==
    Matrix4Set(<<-1, 0, 0, 0>>, <<0, 1, 0, 0>>, <<0, 0, -1, -p>>, <<0, 0, 0, 1>>)

\* World matrix of a mesh translated by tz along z.
MeshAt(tz) ==
    Matrix4Set(<<1, 0, 0, 0>>, <<0, 1, 0, 0>>, <<0, 0, 1, tz>>, <<0, 0, 0, 1>>)

CameraMatrices == {Matrix4Identity, CameraAt(Base + 12), CameraAt(Base + 15)}

MeshMatrices == {Matrix4Identity, MeshAt(2)}

\* A Float32Array of triangle centers from a sequence of <<x, y, z>>.
CentersArray(cs) ==
    [k \in 0..(Len(cs) * 3 - 1) |-> cs[(k \div 3) + 1][(k % 3) + 1]]

\* The scenes of the driver specification.
Scenes ==
    { CentersArray(<<<<0, 0, 8>>, <<0, 0, 4>>, <<0, 0, 0>>>>),
      CentersArray(<<<<0, 0, 0>>, <<4, 0, 4>>>>) }

\* Clock advances between two frames.
TimeSteps == {0, SORT_THROTTLE_MS, SORT_THROTTLE_MS + 1}

(***************************************************************************)
(* The geometry builder: createTriangleSplatsGeometry.  Positions are      *)
(* Float32 values in the unit of the module; vertex indices and SH         *)
(* coefficients are plain numbers.  Opacities and weights, which the       *)
(* builder copies and compares but never adds or scales, are counted in    *)
(* units of 2^-30: every Float32 from 2^-7 to 1 is such a count, so the    *)
(* values around the 0.01 of the min-opacity gate are exact.  The color    *)
(* attribute, the bounding volumes and the logging are not part of the     *)
(* model.                                                                  *)
(***************************************************************************)
\* 1.0
One == 2^23

\* The opacity 1.0
OpacityOne == 2^30

\* NaN, which is also what undefined becomes in arithmetic and in a store
\* into a Float32Array.
NaN == -(2^30)

\* a[k] on a typed array: undefined outside 0..length-1.
TypedArrayRead(a, k) ==
    IF k # NaN /\ k \in DOMAIN a THEN a[k] ELSE NaN

\* The store of the double s / d (d > 0) into a Float32Array.  Exact where
\* the quotient is an integer count or has magnitude at least 2^23.
FroundDiv(s, d) ==
    LET sp   == Float32Spacing(Abs(s) \div d)
        down == (s \div (d * sp)) * sp
        r    == s - down * d
    IN  IF 2 * r < d * sp THEN down
        ELSE IF 2 * r > d * sp THEN down + sp
        ELSE IF (down \div sp) % 2 = 0 THEN down ELSE down + sp

\* Math.min(w0, w1, w2)
MathMin3(w0, w1, w2) ==
    IF NaN \in {w0, w1, w2} THEN NaN ELSE SetMin({w0, w1, w2})

\* triangle_indices[i * 3 + j]: v0Idx, v1Idx, v2Idx for j = 0, 1, 2.
CornerVertex(triangle_indices, i, j) ==
    TypedArrayRead(triangle_indices, i * 3 + j)

\* vertices[vIdx * 3 + c]
VertexCoord(vertices, vIdx, c) ==
    IF vIdx = NaN THEN NaN ELSE TypedArrayRead(vertices, vIdx * 3 + c)

TriangleCenter_NotDivided(vertices, triangle_indices, i, c) ==
    LET a == VertexCoord(vertices, CornerVertex(triangle_indices, i, 0), c)
        b == VertexCoord(vertices, CornerVertex(triangle_indices, i, 1), c)
        d == VertexCoord(vertices, CornerVertex(triangle_indices, i, 2), c)
    IN  IF NaN \in {a, b, d} THEN NaN ELSE Fround(a + b + d)

\* triangleCenters[i * 3 + c] = (v0 + v1 + v2) / 3.0, stored as a Float32.
TriangleCenter(vertices, triangle_indices, i, c) ==
    LET a == VertexCoord(vertices, CornerVertex(triangle_indices, i, 0), c)
        b == VertexCoord(vertices, CornerVertex(triangle_indices, i, 1), c)
        d == VertexCoord(vertices, CornerVertex(triangle_indices, i, 2), c)
    IN  IF NaN \in {a, b, d} THEN NaN ELSE FroundDiv(a + b + d, 3)

MinWeightSource_RawWhenPresent(opacities, vertex_weights) ==
    IF vertex_weights.present THEN vertex_weights.array ELSE opacities

\* "Always use opacities (sigmoid values 0-1) for min_weight calculation":
\* w0, w1, w2 are read from opacities, whatever vertex_weights holds.
MinWeightSource(opacities, vertex_weights) == opacities

\* triangleMinWeight = Math.min(w0, w1, w2)
TriangleMinWeight(triangle_indices, weights, i) ==
    MathMin3(TypedArrayRead(weights, CornerVertex(triangle_indices, i, 0)),
             TypedArrayRead(weights, CornerVertex(triangle_indices, i, 1)),
             TypedArrayRead(weights, CornerVertex(triangle_indices, i, 2)))

\* triangleCenters: three scalars per triangle, numTriangles * 3 = numVertices
\* in all.
TriangleCenters(vertices, triangle_indices, numVertices) ==
    [k \in 0..(numVertices - 1) |->
        TriangleCenter(vertices, triangle_indices, k \div 3, k % 3)]

\* unrolledVertices: record k = i * 3 + j holds the position of vertex
\* triangle_indices[i * 3 + j].
UnrolledVertices(vertices, triangle_indices, numVertices) ==
    [n \in 0..(numVertices * 3 - 1) |->
        VertexCoord(vertices, TypedArrayRead(triangle_indices, n \div 3),
                    n % 3)]

UnrolledBarycentrics_FirstComponent(numVertices) ==
    [n \in 0..(numVertices * 3 - 1) |-> IF n % 3 = 0 THEN One ELSE 0]

\* unrolledBarycentrics[targetIdx * 3 + j] = 1.0 over the zeros of the new
\* array, with j = targetIdx % 3.
UnrolledBarycentrics(numVertices) ==
    [n \in 0..(numVertices * 3 - 1) |->
        IF n % 3 = (n \div 3) % 3 THEN One ELSE 0]

\* unrolledOpacities[targetIdx] = opacities[vIdx]
UnrolledOpacities(triangle_indices, opacities, numVertices) ==
    [k \in 0..(numVertices - 1) |->
        TypedArrayRead(opacities, TypedArrayRead(triangle_indices, k))]

\* vertexIndices[targetIdx] = vIdx, a Float32Array of integers.
VertexIndices(triangle_indices, numVertices) ==
    [k \in 0..(numVertices - 1) |->
        Fround(TypedArrayRead(triangle_indices, k))]

\* triangleVertexIndices<j>[targetIdx] = v<j>Idx
TriangleVertexIndices(triangle_indices, numVertices, j) ==
    [k \in 0..(numVertices - 1) |->
        Fround(CornerVertex(triangle_indices, k \div 3, j))]

\* triangleVertices<j>[targetIdx * 3 + c] = vertices[v<j>Idx * 3 + c]
TriangleVertices(vertices, triangle_indices, numVertices, j) ==
    [n \in 0..(numVertices * 3 - 1) |->
        VertexCoord(vertices, CornerVertex(triangle_indices, n \div 9, j),
                    n % 3)]

\* triangleOpacities<j>[targetIdx] = opacities[v<j>Idx]
TriangleOpacities(triangle_indices, opacities, numVertices, j) ==
    [k \in 0..(numVertices - 1) |->
        TypedArrayRead(opacities, CornerVertex(triangle_indices, k \div 3, j))]

TriangleMinWeights_PerCorner(triangle_indices, weights, numVertices) ==
    [k \in 0..(numVertices - 1) |->
        TypedArrayRead(weights, TypedArrayRead(triangle_indices, k))]

\* triangleMinWeights[targetIdx] = triangleMinWeight
TriangleMinWeights(triangle_indices, weights, numVertices) ==
    [k \in 0..(numVertices - 1) |->
        TriangleMinWeight(triangle_indices, weights, k \div 3)]

\* The index buffer: indices[i] = i.
Indices(numVertices) == [k \in 0..(numVertices - 1) |-> k]

\* restComponentCount
RestComponentCount(sh_degree) ==
    IF sh_degree > 0 THEN (sh_degree + 1) * (sh_degree + 1) - 1 ELSE 0

\* shData: 48 floats for each original vertex, the DC triple, then the rest
\* coefficients, then zeros; null (the empty array here) without features_dc.
ShData(vertices, features_dc, features_rest, sh_degree) ==
    IF ~features_dc.present THEN <<>>
    ELSE LET restSize == RestComponentCount(sh_degree) * 3 IN
         [n \in 0..(ArrayLen(vertices) * 16 - 1) |->
            LET vIdx == n \div 48
                o    == n % 48
            IN  IF o < 3 THEN TypedArrayRead(features_dc.array, vIdx * 3 + o)
                ELSE IF features_rest.present /\ o - 3 < restSize
                THEN TypedArrayRead(features_rest.array,
                                    vIdx * restSize + (o - 3))
                ELSE 0]

\* shDataTexture: a texture 1024 pixels wide, 4 floats a pixel, 12 pixels a
\* vertex.  Its image rgbaData is shData followed by zeros up to
\* texWidth * texHeight * 4 floats; the record keeps the copied part and
\* the size.
ShDataTexture(shData) ==
    LET totalPixels == ArrayLen(shData) \div 4
        texHeight   == (totalPixels + 1023) \div 1024
    IN  [copied |-> shData, texWidth |-> 1024, texHeight |-> texHeight]

\* The geometry returned: its attributes, the centroid table, the SH texture
\* and the index attribute.  numTriangles is triangle_indices.length / 3,
\* a fraction when the length is no multiple of 3; numVertices, numTriangles
\* * 3, is the length again, and the loops run while i < numTriangles.
createTriangleSplatsGeometry(vertices, triangle_indices, opacities, vertex_weights, features_dc, features_rest, sh_degree) ==
    LET numVertices  == ArrayLen(triangle_indices)
        weights      == MinWeightSource(opacities, vertex_weights)
        shData       == ShData(vertices, features_dc, features_rest,
                               sh_degree)
    IN  [position            |-> UnrolledVertices(vertices, triangle_indices,
                                                  numVertices),
         aBarycentric        |-> UnrolledBarycentrics(numVertices),
         aOpacity            |-> UnrolledOpacities(triangle_indices,
                                                   opacities, numVertices),
         aVertexIndex        |-> VertexIndices(triangle_indices, numVertices),
         aTriangleVertexIdx0 |-> TriangleVertexIndices(triangle_indices,
                                                       numVertices, 0),
         aTriangleVertexIdx1 |-> TriangleVertexIndices(triangle_indices,
                                                       numVertices, 1),
         aTriangleVertexIdx2 |-> TriangleVertexIndices(triangle_indices,
                                                       numVertices, 2),
         aTriangleV0         |-> TriangleVertices(vertices, triangle_indices,
                                                  numVertices, 0),
         aTriangleV1         |-> TriangleVertices(vertices, triangle_indices,
                                                  numVertices, 1),
         aTriangleV2         |-> TriangleVertices(vertices, triangle_indices,
                                                  numVertices, 2),
         aTriangleOpacity0   |-> TriangleOpacities(triangle_indices,
                                                   opacities, numVertices, 0),
         aTriangleOpacity1   |-> TriangleOpacities(triangle_indices,
                                                   opacities, numVertices, 1),
         aTriangleOpacity2   |-> TriangleOpacities(triangle_indices,
                                                   opacities, numVertices, 2),
         aTriangleMinWeight  |-> TriangleMinWeights(triangle_indices, weights,
                                                    numVertices),
         triangleCenters     |-> TriangleCenters(vertices, triangle_indices,
                                                 numVertices),
         shDataTexture       |-> IF features_dc.present
                                 THEN ShDataTexture(shData) ELSE <<>>,
         index               |-> Indices(numVertices),
         needsUpdate         |-> FALSE]

(***************************************************************************)
(* State.                                                                  *)
(***************************************************************************)
VARIABLES
    props,                  \* the scene props
    uniforms,               \* material.uniforms
    geometry,               \* [triangleCenters, index, needsUpdate]
    meshRef,                \* meshRef.current is the mesh
    workerRef,              \* "null" or "worker"
    isSortingRef,
    currentRequestIdRef,
    lastSortTimeRef,
    prevCameraMatrixRef,
    camera,                 \* camera.matrixWorldInverse
    meshMatrixWorld,        \* meshRef.current.matrixWorld
    now,                    \* the last reading of performance.now()
    toWorker,               \* messages posted to the worker, not yet handled
    toDriver,               \* messages posted by the worker, not yet handled
    posts,                  \* history: the requests posted
    installed,              \* history: requestIds of the results installed
    served,                 \* history: the requests the worker handled
    last,                   \* history: the last step taken
    analysis,               \* what analyzeTriangleFiltering returned last
    vertexStage,            \* the vertex shader's last invocation
    workerArray             \* the worker's preparedIndexArray after its post

driverVars == <<geometry, isSortingRef, currentRequestIdRef, lastSortTimeRef,
                prevCameraMatrixRef>>

vars == <<props, uniforms, geometry, meshRef, workerRef, isSortingRef,
          currentRequestIdRef, lastSortTimeRef, prevCameraMatrixRef, camera,
          meshMatrixWorld, now, toWorker, toDriver, posts, installed, served,
          last, analysis, vertexStage, workerArray>>

(***************************************************************************)
(* Geometry.                                                               *)
(***************************************************************************)
\* The geometry the builder hands to the driver: the centroid table and the
\* identity index buffer.
BuiltGeometry(centers) ==
    [triangleCenters |-> centers,
     index           |-> [k \in 0..(ArrayLen(centers) - 1) |-> k],
     needsUpdate     |-> FALSE]

\* indexArray.set(preparedIndexArray) throws a RangeError when the source is
\* longer than the target.
SetThrows(geom, preparedIndexArray) ==
    ArrayLen(preparedIndexArray) > ArrayLen(geom.index)

SetGeometryIndexBuffer_NoUpload(geom, preparedIndexArray) ==
    [geom EXCEPT
        !.index = [k \in DOMAIN geom.index |->
                      IF k \in DOMAIN preparedIndexArray
                      THEN preparedIndexArray[k] ELSE geom.index[k]]]

\* setGeometryIndexBuffer: copy the prepared array over the index array from
\* offset 0 and mark the attribute for upload.
SetGeometryIndexBuffer(geom, preparedIndexArray) ==
    [geom EXCEPT
        !.index = [k \in DOMAIN geom.index |->
                      IF k \in DOMAIN preparedIndexArray
                      THEN preparedIndexArray[k] ELSE geom.index[k]],
        !.needsUpdate = TRUE]

(***************************************************************************)
(* The render driver: TriangleSplatsObject.                                *)
(***************************************************************************)
\* The props of the component: the scene has n / 3 triangles; sigma and
\* debugShaderLogging have their defaults (sigma in whole units).
SceneProps(n) ==
    [triangle_indices_length |-> n, sigma |-> 1, debugShaderLogging |-> TRUE]

\* camera.getWorldPosition: the translation of the inverse of the (rigid)
\* matrixWorldInverse m.
CameraWorldPosition(m) ==
    << -(m[0] * m[12] + m[1] * m[13] + m[2] * m[14]),
       -(m[4] * m[12] + m[5] * m[13] + m[6] * m[14]),
       -(m[8] * m[12] + m[9] * m[13] + m[10] * m[14]) >>

\* The uniforms of the material as createTriangleSplatsMaterial sets them.
InitialUniforms ==
    [worldCameraPosition  |-> CameraWorldPosition(camera),
     sigma                |-> props.sigma,
     uEnableShaderLogging |-> IF props.debugShaderLogging THEN 1 ELSE 0,
     uResolution          |-> "window.inner"]

\* The first block of the useFrame callback.
UpdateUniforms ==
    [worldCameraPosition  |-> CameraWorldPosition(camera),
     sigma                |-> props.sigma,
     uEnableShaderLogging |-> IF props.debugShaderLogging THEN 1 ELSE 0,
     uResolution          |-> "drawingBufferSize"]

Init ==
    /\ \E centers \in Scenes :
          /\ props = SceneProps(ArrayLen(centers))
          /\ geometry = BuiltGeometry(centers)
    /\ meshRef = TRUE
    /\ workerRef = "null"
    /\ isSortingRef = FALSE
    /\ currentRequestIdRef = 0
    /\ lastSortTimeRef = 0
    /\ prevCameraMatrixRef = Matrix4Identity
    /\ camera \in CameraMatrices
    /\ uniforms = InitialUniforms
    /\ meshMatrixWorld = Matrix4Identity
    /\ now = 0
    /\ toWorker = <<>>
    /\ toDriver = <<>>
    /\ posts = <<>>
    /\ installed = <<>>
    /\ served = <<>>
    /\ last = "init"
    /\ analysis = <<>>
    /\ vertexStage = <<>>
    /\ workerArray = <<>>

\* The effect that creates the worker and sets its onmessage handler.
WorkerEffect ==
    /\ workerRef = "null"
    /\ workerRef' = "worker"
    /\ last' = "effect"
    /\ UNCHANGED <<uniforms, props, geometry, meshRef, isSortingRef,
                   currentRequestIdRef, lastSortTimeRef, prevCameraMatrixRef,
                   camera, meshMatrixWorld, now, toWorker, toDriver, posts,
                   installed, served,
                   analysis, vertexStage, workerArray>>

\* The camera controls move the camera.
MoveCamera ==
    /\ \E m \in CameraMatrices \ {camera} : camera' = m
    /\ last' = "camera"
    /\ UNCHANGED <<uniforms, props, geometry, meshRef, workerRef,
                   isSortingRef, currentRequestIdRef, lastSortTimeRef,
                   prevCameraMatrixRef, meshMatrixWorld, now, toWorker,
                   toDriver, posts, installed, served,
                   analysis, vertexStage, workerArray>>

\* The scene graph moves the mesh.
MoveMesh ==
    /\ \E m \in MeshMatrices \ {meshMatrixWorld} : meshMatrixWorld' = m
    /\ last' = "mesh"
    /\ UNCHANGED <<uniforms, props, geometry, meshRef, workerRef,
                   isSortingRef, currentRequestIdRef, lastSortTimeRef,
                   prevCameraMatrixRef, camera, now, toWorker, toDriver,
                   posts, installed, served,
                   analysis, vertexStage, workerArray>>

CanStartSort_IgnoresFlight == meshRef

\* meshRef.current && geometry && !isSortingRef.current
CanStartSort == meshRef /\ ~isSortingRef

\* !cameraMatrix.equals(prevCameraMatrixRef.current)
CameraChanged == ~MatrixEquals(camera, prevCameraMatrixRef)

ThrottleElapsed_AtLeast(t) == t - lastSortTimeRef >= SORT_THROTTLE_MS

ThrottleElapsed_Absolute(t) == t > SORT_THROTTLE_MS

\* timeSinceLastSort > 100
ThrottleElapsed(t) == t - lastSortTimeRef > SORT_THROTTLE_MS

\* triangleCenters && workerRef.current (the centroid table is an object)
WorkerReady == workerRef # "null"

NextRequestId_Same(id) == id

\* currentRequestIdRef.current++
NextRequestId(id) == id + 1

\* The request of a dispatch at clock reading t.
SortRequest(id) ==
    [numTriangles |-> props.triangle_indices_length \div 3,
     centers      |-> geometry.triangleCenters,
     viewMatrix   |-> MultiplyMatrices(camera, meshMatrixWorld),
     requestId    |-> id]

\* The body of the two ifs: mark in flight, post, remember camera and time.
\* postMessage is called without a transfer list: the worker gets a clone of
\* the centers and the geometry keeps its table.
DispatchSort(t) ==
    /\ isSortingRef' = TRUE
    /\ currentRequestIdRef' = NextRequestId(currentRequestIdRef)
    /\ toWorker' = Append(toWorker, SortRequest(currentRequestIdRef'))
    /\ prevCameraMatrixRef' = camera
    /\ lastSortTimeRef' = t
    /\ posts' = Append(posts, [requestId      |-> currentRequestIdRef',
                               time           |-> t,
                               lastSortBefore |-> lastSortTimeRef])
    /\ UNCHANGED geometry

SortStep_Blocking(t) ==
    /\ ~isSortingRef
    /\ IF CanStartSort /\ CameraChanged /\ ThrottleElapsed(t) /\ WorkerReady
       THEN DispatchSort(t)
       ELSE UNCHANGED <<driverVars, toWorker, posts>>

\* "Sort triangles by depth with throttling and worker"
SortStep(t) ==
    IF CanStartSort /\ CameraChanged /\ ThrottleElapsed(t) /\ WorkerReady
    THEN DispatchSort(t)
    ELSE UNCHANGED <<driverVars, toWorker, posts>>

\* One frame: the useFrame callback, run at clock reading now + dt.
Frame(dt) ==
    /\ now + dt <= MaxTime
    /\ now' = now + dt
    /\ uniforms' = UpdateUniforms
    /\ SortStep(now')
    /\ last' = "frame"
    /\ UNCHANGED <<props, meshRef, workerRef, camera, meshMatrixWorld,
                   toDriver, installed, served,
                   analysis, vertexStage, workerArray>>

FrameTick == \E dt \in TimeSteps : Frame(dt)

(***************************************************************************)
(* The worker: self.onmessage.                                             *)
(***************************************************************************)
SortResult(req) ==
    [error              |-> "",
     preparedIndexArray |-> sortAndPrepareIndexBuffer(req.numTriangles,
                                                      req.centers,
                                                      req.viewMatrix),
     requestId          |-> req.requestId]

Detached_StillHeld(array) == array

\* A typed array whose buffer was named in the transfer list of a
\* postMessage: the buffer is detached and the array has length 0.
Detached(array) == ZeroArray(0)

SortError_NoId(req) ==
    [error              |-> "Error",
     preparedIndexArray |-> <<>>,
     requestId          |-> 0]

\* The catch branch: the message carries the error text and the requestId.
SortError(req) ==
    [error              |-> "Error",
     preparedIndexArray |-> <<>>,
     requestId          |-> req.requestId]

HandleRequest_PostsTwice(throws) ==
    /\ toWorker # <<>>
    /\ LET req == Head(toWorker) IN
          /\ toDriver' = toDriver \o
                    (IF throws THEN <<SortError(req)>>
                               ELSE <<SortResult(req), SortResult(req)>>)
          /\ served' = Append(served, req)
    /\ toWorker' = Tail(toWorker)
    /\ last' = "worker"
    /\ UNCHANGED <<uniforms, props, geometry, meshRef, workerRef,
                   isSortingRef, currentRequestIdRef, lastSortTimeRef,
                   prevCameraMatrixRef, camera, meshMatrixWorld, now, posts,
                   installed, analysis, vertexStage, workerArray>>

\* The worker handles the oldest request; the try block either completes or
\* throws (an allocation that fails).  A result is posted with
\* [preparedIndexArray.buffer] as its transfer list; an error is posted when
\* no index array was made.
HandleRequest(throws) ==
    /\ toWorker # <<>>
    /\ LET req    == Head(toWorker)
           result == SortResult(req)
       IN  /\ IF throws
              THEN /\ toDriver' = Append(toDriver, SortError(req))
                   /\ workerArray' = <<>>
              ELSE /\ toDriver' = Append(toDriver, result)
                   /\ workerArray' = Detached(result.preparedIndexArray)
           /\ served' = Append(served, req)
    /\ toWorker' = Tail(toWorker)
    /\ last' = "worker"
    /\ UNCHANGED <<uniforms, props, geometry, meshRef, workerRef,
                   isSortingRef, currentRequestIdRef, lastSortTimeRef,
                   prevCameraMatrixRef, camera, meshMatrixWorld, now, posts,
                   installed, analysis, vertexStage>>

\* self.onmessage, whichever way its try block ends.
WorkerOnMessage == \E throws \in BOOLEAN : HandleRequest(throws)

(***************************************************************************)
(* The driver's handler of worker messages: workerRef.current.onmessage.   *)
(***************************************************************************)
HandleSortError_KeepsFlag(e) ==
    /\ UNCHANGED <<geometry, isSortingRef, currentRequestIdRef,
                   lastSortTimeRef, prevCameraMatrixRef, installed>>

HandleSortError_ResetsTime(e) ==
    /\ isSortingRef' = FALSE
    /\ lastSortTimeRef' = 0
    /\ UNCHANGED <<geometry, currentRequestIdRef, prevCameraMatrixRef,
                   installed>>

\* if (e.data.error) { log; isSortingRef.current = false; return; }
HandleSortError(e) ==
    /\ isSortingRef' = FALSE
    /\ UNCHANGED <<geometry, currentRequestIdRef, lastSortTimeRef,
                   prevCameraMatrixRef, installed>>

\* The rest of the handler.  A throw of setGeometryIndexBuffer leaves the
\* handler before isSortingRef.current = false.
HandleSortResult(e) ==
    /\ IF e.requestId = currentRequestIdRef /\ meshRef
       THEN IF SetThrows(geometry, e.preparedIndexArray)
            THEN UNCHANGED <<geometry, isSortingRef, installed>>
            ELSE /\ geometry' = SetGeometryIndexBuffer(geometry,
                                                       e.preparedIndexArray)
                 /\ installed' = Append(installed, e.requestId)
                 /\ isSortingRef' = FALSE
       ELSE /\ isSortingRef' = FALSE
            /\ UNCHANGED <<geometry, installed>>
    /\ UNCHANGED <<currentRequestIdRef, lastSortTimeRef, prevCameraMatrixRef>>

DriverOnMessage ==
    /\ toDriver # <<>>
    /\ LET e == Head(toDriver) IN
          IF e.error # "" THEN HandleSortError(e) ELSE HandleSortResult(e)
    /\ toDriver' = Tail(toDriver)
    /\ last' = IF Head(toDriver).error # "" THEN "error" ELSE "result"
    /\ UNCHANGED <<uniforms, props, meshRef, workerRef, camera,
                   meshMatrixWorld, now, toWorker, posts, served,
                   analysis, vertexStage, workerArray>>

Next ==
    \/ WorkerEffect
    \/ MoveCamera
    \/ MoveMesh
    \/ FrameTick
    \/ WorkerOnMessage
    \/ DriverOnMessage

Spec == Init /\ [][Next]_vars

(***************************************************************************)
(* The sorter alone: one request with arbitrary inputs, as left by a       *)
(* dispatch, handled by the worker and then by the driver.                 *)
(***************************************************************************)
SortCenters == {<<x, 0, z>> : x \in {0, 4}, z \in {0, 4, 8}}

SortScenes ==
    UNION {{CentersArray(cs) : cs \in [1..n -> SortCenters]} :
              n \in 0..MaxTriangles}

SortCameras ==
    CameraMatrices \cup {CameraAt(Base + 13), CameraBehind(Base + 16)}

SortInit ==
    /\ \E centers \in SortScenes :
          /\ props = SceneProps(ArrayLen(centers))
          /\ geometry = BuiltGeometry(centers)
    /\ meshRef = TRUE
    /\ workerRef = "worker"
    /\ isSortingRef = TRUE
    /\ currentRequestIdRef = 1
    /\ lastSortTimeRef = SORT_THROTTLE_MS + 1
    /\ camera \in SortCameras
    /\ uniforms = UpdateUniforms
    /\ prevCameraMatrixRef = camera
    /\ meshMatrixWorld \in MeshMatrices
    /\ now = SORT_THROTTLE_MS + 1
    /\ toWorker = <<SortRequest(1)>>
    /\ toDriver = <<>>
    /\ posts = <<[requestId |-> 1, time |-> now, lastSortBefore |-> 0]>>
    /\ installed = <<>>
    /\ served = <<>>
    /\ last = "frame"
    /\ analysis = <<>>
    /\ vertexStage = <<>>
    /\ workerArray = <<>>

SortNext == WorkerOnMessage \/ DriverOnMessage

SortSpec == SortInit /\ [][SortNext]_vars

(***************************************************************************)
(* The builder with the driver: the component is given its props, its      *)
(* first render builds the geometry and mounts the mesh, and the driver    *)
(* and the worker run from there.                                          *)
(***************************************************************************)
MaxBuildTriangles == 2

\* Two vertex tables of four vertices: coordinates in [1, 2), where Float32
\* values are one unit apart, and in [2, 4), where they are two units apart.
BuildVertexArrays ==
    { CentersArray(<< <<One, One, One>>,
                      <<One + 1, One, One + 2>>,
                      <<One, One + 1, One + 4>>,
                      <<One + 2, One + 2, One + 1>> >>),
      CentersArray(<< <<2 * One, 2 * One, 2 * One + 2>>,
                      <<2 * One + 2, 2 * One, 2 * One>>,
                      <<2 * One, 2 * One + 4, 2 * One + 6>>,
                      <<2 * One + 6, 2 * One + 2, 2 * One + 2>> >>) }

\* Faces over the four vertices, one of them with a vertex used twice.
BuildFaces == { <<0, 1, 2>>, <<3, 2, 0>>, <<1, 1, 3>> }

\* The Uint32Array of the faces fs.
FacesArray(fs) == CentersArray(fs)

BuildIndexArrays ==
    UNION {{FacesArray(fs) : fs \in [1..n -> BuildFaces]} :
              n \in 0..MaxBuildTriangles}

\* Opacities in [0, 1]: all 1.0, and 0.5, 0.25, 1.0, 0.0099.
BuildOpacityArrays ==
    { [v \in 0..3 |-> OpacityOne],
      [v \in 0..3 |-> <<OpacityOne \div 2, OpacityOne \div 4, OpacityOne,
                         10630044>>[v + 1]] }

\* vertex_weights: undefined, or the raw pre-sigmoid weights.
BuildVertexWeights ==
    { [present |-> FALSE, array |-> <<>>],
      [present |-> TRUE,
       array   |-> [v \in 0..3 |-> <<-(OpacityOne \div 2), OpacityOne + 7,
                                      -3, 0>>[v + 1]]] }

\* The props of the component with the scene input.
BuildProps(vertices, triangle_indices, opacities, vertex_weights) ==
    [triangle_indices_length |-> ArrayLen(triangle_indices),
     sigma                   |-> 1,
     debugShaderLogging      |-> TRUE,
     vertices                |-> vertices,
     triangle_indices        |-> triangle_indices,
     opacities               |-> opacities,
     vertex_weights          |-> vertex_weights,
     features_dc             |-> [present |-> FALSE, array |-> <<>>],
     features_rest           |-> [present |-> FALSE, array |-> <<>>],
     sh_degree               |-> 3]

\* The component before its first render: no geometry, no material, no mesh.
BuildInit ==
    /\ \E vertices \in BuildVertexArrays,
          triangle_indices \in BuildIndexArrays,
          opacities \in BuildOpacityArrays,
          vertex_weights \in BuildVertexWeights :
            props = BuildProps(vertices, triangle_indices, opacities,
                               vertex_weights)
    /\ geometry = <<>>
    /\ uniforms = <<>>
    /\ meshRef = FALSE
    /\ workerRef = "null"
    /\ isSortingRef = FALSE
    /\ currentRequestIdRef = 0
    /\ lastSortTimeRef = 0
    /\ prevCameraMatrixRef = Matrix4Identity
    /\ camera = CameraAt(Base + 12)
    /\ meshMatrixWorld = Matrix4Identity
    /\ now = 0
    /\ toWorker = <<>>
    /\ toDriver = <<>>
    /\ posts = <<>>
    /\ installed = <<>>
    /\ served = <<>>
    /\ last = "init"
    /\ analysis = <<>>
    /\ vertexStage = <<>>
    /\ workerArray = <<>>

\* The first render: the geometry and the material are created from the
\* props and the mesh is mounted.
Render ==
    /\ ~meshRef
    /\ geometry' = createTriangleSplatsGeometry(props.vertices,
                                                props.triangle_indices,
                                                props.opacities,
                                                props.vertex_weights,
                                                props.features_dc,
                                                props.features_rest,
                                                props.sh_degree)
    /\ uniforms' = InitialUniforms
    /\ meshRef' = TRUE
    /\ last' = "render"
    /\ UNCHANGED <<props, workerRef, isSortingRef, currentRequestIdRef,
                   lastSortTimeRef, prevCameraMatrixRef, camera,
                   meshMatrixWorld, now, toWorker, toDriver, posts,
                   installed, served,
                   analysis, vertexStage, workerArray>>

\* Effects and frames run once the component is mounted.
BuildNext ==
    \/ Render
    \/ meshRef /\ WorkerEffect
    \/ meshRef /\ FrameTick
    \/ WorkerOnMessage
    \/ DriverOnMessage

BuildSpec == BuildInit /\ [][BuildNext]_vars

(***************************************************************************)
(* The mounted component with props that change: the geometry useMemo runs *)
(* again and the mesh gets the new geometry, while the refs, the worker    *)
(* and its messages stay.                                                  *)
(***************************************************************************)
\* A render with new scene props: a new geometry with the identity index and
\* a new material.
Rebuild ==
    /\ meshRef
    /\ \E centers \in Scenes \ {geometry.triangleCenters} :
          /\ props' = SceneProps(ArrayLen(centers))
          /\ geometry' = BuiltGeometry(centers)
    /\ uniforms' = InitialUniforms
    /\ last' = "rebuild"
    /\ UNCHANGED <<meshRef, workerRef, isSortingRef, currentRequestIdRef,
                   lastSortTimeRef, prevCameraMatrixRef, camera,
                   meshMatrixWorld, now, toWorker, toDriver, posts,
                   installed, served, analysis, vertexStage, workerArray>>

RebuildNext ==
    \/ WorkerEffect
    \/ MoveCamera
    \/ Rebuild
    \/ FrameTick
    \/ WorkerOnMessage
    \/ DriverOnMessage

RebuildSpec == Init /\ [][RebuildNext]_vars

(***************************************************************************)
(* The driver under the scheduling of the browser: frames keep coming,     *)
(* posted messages are delivered and handled, the effect runs after the    *)
(* mount.  The worker answers every request with a result.                 *)
(***************************************************************************)
\* One scene of two triangles.
LiveInit == Init /\ props.triangle_indices_length = 6

\* A frame at the same clock reading or more than the throttle later.
LiveFrameTick == Frame(0) \/ Frame(SORT_THROTTLE_MS + 1)

\* The worker's try block completes.
WorkerAnswers == HandleRequest(FALSE)

\* The worker takes the oldest request off its queue: the step of
\* WorkerAnswers as the request queue sees it, and no other step of the
\* program shortens that queue.
WorkerTakesRequest == toWorker # <<>> /\ toWorker' = Tail(toWorker)

LiveNext ==
    \/ WorkerEffect
    \/ MoveCamera
    \/ MoveMesh
    \/ LiveFrameTick
    \/ WorkerAnswers
    \/ DriverOnMessage

LiveSpec ==
    /\ LiveInit
    /\ [][LiveNext]_vars
    /\ WF_vars(WorkerEffect)
    /\ WF_vars(LiveFrameTick)
    /\ WF_toWorker(WorkerTakesRequest)
    /\ WF_vars(DriverOnMessage)

(***************************************************************************)
(* The builder on scene inputs of any shape: the arrays arrive from the    *)
(* props as they are, and nothing checks their lengths or their values.    *)
(***************************************************************************)
\* a.subarray(0, len)
Truncated(a, len) == [k \in 0..(len - 1) |-> a[k]]

\* Faces over the four vertices, and one that names a fifth vertex.
ShapeFaces == BuildFaces \cup { <<0, 1, 4>> }

\* Index arrays of every length up to MaxBuildTriangles triples: whole
\* triples, and arrays that stop inside a triple.
ShapeIndexArrays ==
    UNION {{Truncated(FacesArray(fs), len) :
                fs \in [1..n -> ShapeFaces], len \in 0..(3 * n)} :
              n \in 1..MaxBuildTriangles}

\* Opacities for the four vertices, for three of them and for five.
ShapeOpacityArrays ==
    BuildOpacityArrays \cup
    { [v \in 0..2 |-> OpacityOne \div 2],
      [v \in 0..4 |-> OpacityOne \div 2] }

\* features_dc[n] and features_rest[n] of the inputs: distinct numbers.
ShapeDC(len) == [n \in 0..(len - 1) |-> 1000 + n]

ShapeRest(len) == [n \in 0..(len - 1) |-> 2000 + n]

\* The SH inputs for four vertices: none; DC only; DC and rest of degree 1
\* (3 triples a vertex) and of degree 3 (15 triples a vertex); rest arrays
\* that are too short and too long for the degree; a short DC array.
ShapeFeatures ==
    { [features_dc   |-> [present |-> FALSE, array |-> <<>>],
       features_rest |-> [present |-> FALSE, array |-> <<>>],
       sh_degree     |-> 3],
      [features_dc   |-> [present |-> TRUE, array |-> ShapeDC(12)],
       features_rest |-> [present |-> FALSE, array |-> <<>>],
       sh_degree     |-> 0],
      [features_dc   |-> [present |-> TRUE, array |-> ShapeDC(12)],
       features_rest |-> [present |-> TRUE, array |-> ShapeRest(36)],
       sh_degree     |-> 1],
      [features_dc   |-> [present |-> TRUE, array |-> ShapeDC(12)],
       features_rest |-> [present |-> TRUE, array |-> ShapeRest(180)],
       sh_degree     |-> 3],
      [features_dc   |-> [present |-> TRUE, array |-> ShapeDC(12)],
       features_rest |-> [present |-> TRUE, array |-> ShapeRest(36)],
       sh_degree     |-> 3],
      [features_dc   |-> [present |-> TRUE, array |-> ShapeDC(12)],
       features_rest |-> [present |-> TRUE, array |-> ShapeRest(40)],
       sh_degree     |-> 1],
      [features_dc   |-> [present |-> TRUE, array |-> ShapeDC(9)],
       features_rest |-> [present |-> FALSE, array |-> <<>>],
       sh_degree     |-> 0] }

\* The props with the SH inputs f.
ShapeProps(vertices, triangle_indices, opacities, f) ==
    [BuildProps(vertices, triangle_indices, opacities,
                [present |-> FALSE, array |-> <<>>])
        EXCEPT !.features_dc = f.features_dc,
               !.features_rest = f.features_rest,
               !.sh_degree = f.sh_degree]

\* The component before its first render, with props of any shape.
ShapeInit ==
    /\ \E vertices \in BuildVertexArrays,
          triangle_indices \in ShapeIndexArrays,
          opacities \in ShapeOpacityArrays,
          f \in ShapeFeatures :
            props = ShapeProps(vertices, triangle_indices, opacities, f)
    /\ geometry = <<>>
    /\ uniforms = <<>>
    /\ meshRef = FALSE
    /\ workerRef = "null"
    /\ isSortingRef = FALSE
    /\ currentRequestIdRef = 0
    /\ lastSortTimeRef = 0
    /\ prevCameraMatrixRef = Matrix4Identity
    /\ camera = CameraAt(Base + 12)
    /\ meshMatrixWorld = Matrix4Identity
    /\ now = 0
    /\ toWorker = <<>>
    /\ toDriver = <<>>
    /\ posts = <<>>
    /\ installed = <<>>
    /\ served = <<>>
    /\ last = "init"
    /\ analysis = <<>>
    /\ vertexStage = <<>>
    /\ workerArray = <<>>

\* The build alone.
ShapeNext == Render

ShapeSpec == ShapeInit /\ [][ShapeNext]_vars

(***************************************************************************)
(* The filtering analysis and the vertex stage.  analyzeTriangleFiltering  *)
(* works in doubles on the Float32 opacities; the shader works in Float32. *)
(* Of the vertex stage the model has the min-opacity gate and the scale    *)
(* vPhiCenterScale; the culls between them and the incenter distances      *)
(* depend on the projection, which is not modelled: they are inputs of the *)
(* step.  weightStats of the analysis is not part of the model.            *)
(***************************************************************************)
\* minWeight < STOPPING_INFLUENCE in doubles: the double 0.01 lies between
\* the counts 10737418 and 10737419, and NaN is below nothing.
BelowStoppingInfluence(minWeight) ==
    minWeight # NaN /\ minWeight <= (OpacityOne - 1) \div 100

\* minWeightFiltered after the loop over the triangles.
MinWeightFiltered(triangle_indices, opacities, numTriangles) ==
    Cardinality({i \in 0..(numTriangles - 1) :
        BelowStoppingInfluence(TriangleMinWeight(triangle_indices,
                                                 opacities, i))})

\* 1.0 of filterPercentage, which is counted in units of 2^-16.
PercentOne == 2^16

\* (minWeightFiltered / numTriangles) * 100 to the nearest 2^-16; 0 / 0 is
\* NaN.
FilterPercentage(minWeightFiltered, numTriangles) ==
    IF numTriangles = 0 THEN NaN
    ELSE (2 * minWeightFiltered * 100 * PercentOne + numTriangles)
            \div (2 * numTriangles)

\* What analyzeTriangleFiltering returns (triangle_indices.length is a
\* multiple of 3).
analyzeTriangleFiltering(triangle_indices, opacities, debug) ==
    LET numTriangles == ArrayLen(triangle_indices) \div 3
        filtered     == MinWeightFiltered(triangle_indices, opacities,
                                          numTriangles)
    IN  IF ~debug
        THEN [minWeightFiltered |-> 0, totalTriangles |-> 0,
              filterPercentage |-> 0]
        ELSE [minWeightFiltered |-> filtered,
              totalTriangles    |-> numTriangles,
              filterPercentage  |-> FilterPercentage(filtered, numTriangles)]

\* vTriangleMinWeight < 0.01 in the shader: the Float32 0.01 is the count
\* 10737418.
BelowMinWeightGate(vTriangleMinWeight) ==
    vTriangleMinWeight # NaN
        /\ vTriangleMinWeight < (OpacityOne + 50) \div 100

\* 1.0 of vPhiCenterScale, which is counted in units of 2^-7 per pixel.
PhiOne == 2^7

\* safeDist = lastDist; if (safeDist >= 0.0) safeDist = -1e-4;
\* vPhiCenterScale = 1.0 / safeDist.  The Float32 quotient 1.0 / -1e-4 is
\* -10000.0; 1.0 / lastDist is exact for the distances of LastDists.
PhiCenterScale(lastDist) ==
    IF lastDist >= 0 THEN -(10000 * PhiOne)
    ELSE -FroundDiv(One * PhiOne, -lastDist)

\* main() of the vertex shader on record k: the outputs the model has.
\* culled says that one of the culls after the gate returned; lastDist is
\* dist of the third edge.
VertexMain(g, k, culled, lastDist) ==
    LET vTriangleMinWeight == g.aTriangleMinWeight[k] IN
    IF BelowMinWeightGate(vTriangleMinWeight)
    THEN [vertex |-> k, vTriangleMinWeight |-> vTriangleMinWeight,
          returned |-> "min_weight", lastDist |-> 0, vPhiCenterScale |-> 0]
    ELSE IF culled
    THEN [vertex |-> k, vTriangleMinWeight |-> vTriangleMinWeight,
          returned |-> "cull", lastDist |-> 0, vPhiCenterScale |-> 0]
    ELSE [vertex |-> k, vTriangleMinWeight |-> vTriangleMinWeight,
          returned |-> "end", lastDist |-> lastDist,
          vPhiCenterScale |-> PhiCenterScale(lastDist)]

\* Opacities of the four vertices: 0.5 everywhere; the Float32 nearest to
\* 0.01 at vertex 0; the Float32 values next below and next above it at
\* vertices 0 and 2; 0.001 at vertex 0.
StageOpacityArrays ==
    { [v \in 0..3 |-> OpacityOne \div 2],
      [v \in 0..3 |-> IF v = 0 THEN 10737418 ELSE OpacityOne \div 2],
      [v \in 0..3 |-> <<10737417, OpacityOne \div 2, 10737419,
                         OpacityOne \div 2>>[v + 1]],
      [v \in 0..3 |-> IF v = 0 THEN 1073742 ELSE OpacityOne \div 2] }

\* dist of the third edge, never positive after the flip: zero; 2^-23,
\* 3 * 2^-23, 100 * 2^-23 and 2^-16 pixels, between 0 and -1e-4; 2^-13
\* pixels and more, beyond -1e-4.
LastDists ==
    {0, -1, -3, -100, -(2^7), -(2^10), -(2^13), -(2^23), -(2^27), -(2^30)}

\* The component before its first render.
StageInit ==
    /\ \E vertices \in BuildVertexArrays,
          triangle_indices \in BuildIndexArrays,
          opacities \in StageOpacityArrays :
            props = BuildProps(vertices, triangle_indices, opacities,
                               [present |-> FALSE, array |-> <<>>])
    /\ geometry = <<>>
    /\ uniforms = <<>>
    /\ meshRef = FALSE
    /\ workerRef = "null"
    /\ isSortingRef = FALSE
    /\ currentRequestIdRef = 0
    /\ lastSortTimeRef = 0
    /\ prevCameraMatrixRef = Matrix4Identity
    /\ camera = CameraAt(Base + 12)
    /\ meshMatrixWorld = Matrix4Identity
    /\ now = 0
    /\ toWorker = <<>>
    /\ toDriver = <<>>
    /\ posts = <<>>
    /\ installed = <<>>
    /\ served = <<>>
    /\ last = "init"
    /\ analysis = <<>>
    /\ vertexStage = <<>>
    /\ workerArray = <<>>

\* A call of analyzeTriangleFiltering on the scene.
Analyze ==
    /\ \E debug \in BOOLEAN :
          /\ analysis' = analyzeTriangleFiltering(props.triangle_indices,
                                                  props.opacities, debug)
          /\ last' = IF debug THEN "analyze debug" ELSE "analyze"
    /\ UNCHANGED <<props, uniforms, geometry, meshRef, workerRef,
                   isSortingRef, currentRequestIdRef, lastSortTimeRef,
                   prevCameraMatrixRef, camera, meshMatrixWorld, now,
                   toWorker, toDriver, posts, installed, served,
                   vertexStage, workerArray>>

\* The vertex shader runs on one record of the mounted geometry.
VertexStage ==
    /\ meshRef
    /\ \E k \in DOMAIN geometry.aTriangleMinWeight,
          culled \in BOOLEAN, lastDist \in LastDists :
            vertexStage' = VertexMain(geometry, k, culled, lastDist)
    /\ last' = "vertex"
    /\ UNCHANGED <<props, uniforms, geometry, meshRef, workerRef,
                   isSortingRef, currentRequestIdRef, lastSortTimeRef,
                   prevCameraMatrixRef, camera, meshMatrixWorld, now,
                   toWorker, toDriver, posts, installed, served, analysis,
                   workerArray>>

\* The build and the analysis of the scene.
AnalyzeNext == Render \/ Analyze

AnalyzeSpec == StageInit /\ [][AnalyzeNext]_vars

\* The build and the vertex stage on its records.
StageNext == Render \/ VertexStage

StageSpec == StageInit /\ [][StageNext]_vars

(***************************************************************************)
(* Properties.                                                             *)
(***************************************************************************)
NumTriangles == props.triangle_indices_length \div 3

InFlight == Len(toWorker) + Len(toDriver)

\* The slots k of an index array that hold the three corners of triangle i.
SlotsOf(arr, n, i) ==
    {k \in 0..(n - 1) : /\ 3 * k + 2 \in DOMAIN arr
                        /\ arr[3 * k] = 3 * i
                        /\ arr[3 * k + 1] = 3 * i + 1
                        /\ arr[3 * k + 2] = 3 * i + 2}

\* arr is one permutation of the n triangle-triples.
IsTrianglePermutation(arr, n) ==
    /\ DOMAIN arr = 0..(3 * n - 1)
    /\ \A i \in 0..(n - 1) : Cardinality(SlotsOf(arr, n, i)) = 1

\* A step in which the driver's handler takes the oldest worker message.
Delivery == toDriver # <<>> /\ toDriver' = Tail(toDriver)

ErrorDelivery == Delivery /\ Head(toDriver).error # ""

ResultDelivery == Delivery /\ Head(toDriver).error = ""

\* The history entry of the request with this id.
PostOf(id) == posts[CHOOSE k \in 1..Len(posts) : posts[k].requestId = id]

LastPost == posts[Len(posts)]

\* C1: in every reachable state the index buffer holds exactly one
\* permutation of the T triangle-triples: 3*T entries, each triangle's three
\* corners at three consecutive positions, none missing or duplicated.
C1_IndexBufferIsPermutation ==
    IsTrianglePermutation(geometry.index, NumTriangles)

\* C2: when the driver takes a sort result it overwrites the index buffer with
\* the result and marks it dirty if and only if the result's requestId equals
\* currentRequestIdRef; the in-flight flag is cleared in both cases.
C2_ResultInstalledIffCurrent ==
    [][ResultDelivery =>
          LET m == Head(toDriver) IN
          /\ m.requestId = currentRequestIdRef =>
                /\ geometry'.index = m.preparedIndexArray
                /\ geometry'.needsUpdate
          /\ m.requestId # currentRequestIdRef => geometry' = geometry
          /\ isSortingRef' = FALSE]_vars

\* A result has just been installed: the index buffer is the (non-identity)
\* order the worker sent, marked for upload, and nothing is in flight.
C2_Witness ==
    /\ last = "result"
    /\ installed # <<>>
    /\ installed[Len(installed)] = currentRequestIdRef
    /\ geometry.needsUpdate
    /\ geometry.index # IdentityIndices(NumTriangles)
    /\ ~isSortingRef

\* C3: at most one sort request is in flight: posted and answered by neither
\* a result nor an error that the driver has taken.
C3_AtMostOneInFlight == InFlight <= 1

\* A frame has run with a request in flight, the camera changed, the throttle
\* elapsed and the worker there, and has posted nothing.
C3_Witness ==
    /\ last = "frame"
    /\ InFlight = 1
    /\ isSortingRef
    /\ CameraChanged /\ ThrottleElapsed(now) /\ WorkerReady
    /\ LastPost.time < now

\* C4: any two requests posted are at least 100 ms apart at posting time.
C4_PostsThrottled ==
    \A i, j \in 1..Len(posts) :
        i < j => posts[j].time - posts[i].time >= SORT_THROTTLE_MS

\* Two requests have been posted, the second 101 ms after the first.
C4_Witness ==
    /\ Len(posts) >= 2
    /\ posts[2].time - posts[1].time = SORT_THROTTLE_MS + 1

\* What a frame sends when it dispatches: (T, centroids, M_mv, the new id).
PostedRequest ==
    [numTriangles |-> NumTriangles,
     centers      |-> geometry.triangleCenters,
     viewMatrix   |-> MultiplyMatrices(camera, meshMatrixWorld),
     requestId    |-> currentRequestIdRef + 1]

FramePosts ==
    /\ currentRequestIdRef' = currentRequestIdRef + 1
    /\ isSortingRef'
    /\ toWorker' = Append(toWorker, PostedRequest)

\* C5 as stated: a frame with mesh and worker, nothing in flight, the view
\* matrix changed and at least 100 ms (>= 100) elapsed dispatches a sort; a
\* frame in which one of the three conditions fails posts nothing.
C5_DispatchAtLeast100 ==
    [][(last' = "frame" /\ meshRef /\ WorkerReady) =>
          IF /\ ~isSortingRef
             /\ ~MatrixEquals(camera, prevCameraMatrixRef)
             /\ now' - lastSortTimeRef >= SORT_THROTTLE_MS
          THEN FramePosts
          ELSE toWorker' = toWorker]_vars

\* C5 amended: the same with more than 100 ms (> 100) elapsed.
C5_DispatchMoreThan100 ==
    [][(last' = "frame" /\ meshRef /\ WorkerReady) =>
          IF /\ ~isSortingRef
             /\ ~MatrixEquals(camera, prevCameraMatrixRef)
             /\ now' - lastSortTimeRef > SORT_THROTTLE_MS
          THEN FramePosts
          ELSE toWorker' = toWorker]_vars

\* A frame has just dispatched the second request, 101 ms after the first.
C5_Witness ==
    /\ last = "frame"
    /\ Len(posts) = 2
    /\ toWorker # <<>>
    /\ isSortingRef
    /\ LastPost.time = now
    /\ LastPost.time - LastPost.lastSortBefore = SORT_THROTTLE_MS + 1

\* C6: the requestIds posted are strictly increasing, and after the result of
\* request n is installed no result of a smaller id is installed.
C6_MonotoneRequestIds ==
    /\ \A i, j \in 1..Len(posts) :
          i < j => posts[i].requestId < posts[j].requestId
    /\ \A i, j \in 1..Len(installed) :
          i < j => installed[i] <= installed[j]

\* Two results have been installed, of two different requests.
C6_Witness ==
    /\ Len(installed) >= 2
    /\ installed[1] < installed[2]
    /\ Len(posts) >= 2

\* C7: when the driver takes an error it clears the in-flight flag and leaves
\* the index buffer as it was, and a frame can run afterwards.
C7_ErrorKeepsIndexBuffer ==
    /\ [][ErrorDelivery => (isSortingRef' = FALSE /\ geometry' = geometry)]_vars
    /\ [](last = "error" => (~isSortingRef /\ ENABLED FrameTick))

\* An error has been taken after an earlier result was installed: the flag is
\* clear and the installed order (not the identity) is still in the buffer.
C7_Witness ==
    /\ last = "error"
    /\ installed # <<>>
    /\ installed[Len(installed)] < currentRequestIdRef
    /\ geometry.index # IdentityIndices(NumTriangles)
    /\ ~isSortingRef

\* C8 as stated: after the error of a request is taken, lastSortTimeRef has
\* the value it had before that request was posted.
C8_ErrorRestoresLastSortTime ==
    [][ErrorDelivery =>
          lastSortTimeRef' = PostOf(Head(toDriver).requestId).lastSortBefore]_vars

\* C8 amended: taking the error leaves lastSortTimeRef unchanged, at the time
\* the failed request was posted.
C8_ErrorKeepsPostTime ==
    [][ErrorDelivery =>
          /\ lastSortTimeRef' = lastSortTimeRef
          /\ lastSortTimeRef' = PostOf(Head(toDriver).requestId).time]_vars

\* The error of the latest request has been taken; the timestamp is that
\* request's posting time, not the earlier value.
C8_Witness ==
    /\ last = "error"
    /\ posts # <<>>
    /\ LastPost.requestId = currentRequestIdRef
    /\ lastSortTimeRef = LastPost.time
    /\ lastSortTimeRef # LastPost.lastSortBefore

\* C9: a frame tick is enabled in every reachable state.
C9_FrameAlwaysEnabled == ENABLED FrameTick

\* Frames have kept running for more than the throttle while the request
\* posted earlier is still unanswered in the worker's queue.
C9_Witness ==
    /\ last = "frame"
    /\ isSortingRef
    /\ toWorker # <<>>
    /\ now - LastPost.time > SORT_THROTTLE_MS

\* The bucket of triangle i as the specification defines it, from the
\* camera-space depth z_i: floor((z_i - min) * 65535 / (max - min)).
DepthBucket(req, i) ==
    LET min == MinDepth(req.numTriangles, req.centers, req.viewMatrix)
        max == MaxDepth(req.numTriangles, req.centers, req.viewMatrix)
    IN  ((ZCam(req.centers, req.viewMatrix, i) - min) * DEPTH_SCALE)
            \div (max - min)

\* Triangle i's corners are in the array, all before triangle j's.
EmittedBefore(arr, n, i, j) ==
    /\ SlotsOf(arr, n, i) # {}
    /\ SlotsOf(arr, n, j) # {}
    /\ \A ki \in SlotsOf(arr, n, i) : \A kj \in SlotsOf(arr, n, j) : ki < kj

\* The request the worker answered with message m.
RequestOf(m) ==
    served[CHOOSE k \in 1..Len(served) : served[k].requestId = m.requestId]

\* C10: when max - min exceeds the range epsilon, the sorter emits triangles
\* in ascending order of their bucket: b_i < b_j puts triangle i's corners
\* before triangle j's.
C10_AscendingBucketOrder ==
    \A q \in 1..Len(toDriver) :
        LET m   == toDriver[q]
            req == RequestOf(m)
        IN  (m.error = "" /\ ~RangeTooSmall(req.numTriangles, req.centers,
                                            req.viewMatrix)) =>
               \A i, j \in 0..(req.numTriangles - 1) :
                   DepthBucket(req, i) < DepthBucket(req, j) =>
                       EmittedBefore(m.preparedIndexArray,
                                     req.numTriangles, i, j)

\* The messages of the worker that carry a sort result.
ResultMessages == {q \in 1..Len(toDriver) : toDriver[q].error = ""}

\* C11: the sort orders triangles by depth: of any two triangles whose
\* camera-space depths differ, the one with the smaller (farther) depth has
\* its corners in the output before the other's.
C11_SmallerDepthEmittedFirst ==
    \A q \in ResultMessages :
        LET m   == toDriver[q]
            req == RequestOf(m)
        IN  \A i, j \in 0..(req.numTriangles - 1) :
                ZCam(req.centers, req.viewMatrix, i)
                    < ZCam(req.centers, req.viewMatrix, j) =>
                        EmittedBefore(m.preparedIndexArray,
                                      req.numTriangles, i, j)

\* The bucket the worker computes for each triangle of a request (depthsInt),
\* when the range is above the epsilon; one bucket for all otherwise.
BucketsOf(req) ==
    IF RangeTooSmall(req.numTriangles, req.centers, req.viewMatrix)
    THEN [i \in 0..(req.numTriangles - 1) |-> ToUint32(0)]
    ELSE DepthsInt(req.numTriangles, req.centers, req.viewMatrix)

\* C12: the sort is stable: two triangles that fall in the same depth bucket
\* are emitted in input order, the one with the smaller index first.
C12_StableWithinBucket ==
    \A q \in ResultMessages :
        LET m   == toDriver[q]
            req == RequestOf(m)
        IN  \A i, j \in 0..(req.numTriangles - 1) :
                (i < j /\ BucketsOf(req)[i] = BucketsOf(req)[j]) =>
                    EmittedBefore(m.preparedIndexArray, req.numTriangles, i, j)

\* C13: the sorter's output has 3*T entries, the corners 3*pi(k), 3*pi(k)+1,
\* 3*pi(k)+2 at positions 3k, 3k+1, 3k+2 for a permutation pi of 0..T-1, and
\* every bucket index used is in 0..65535.
C13_OutputIsPermutation ==
    \A q \in ResultMessages :
        LET m   == toDriver[q]
            req == RequestOf(m)
        IN  /\ IsTrianglePermutation(m.preparedIndexArray, req.numTriangles)
            /\ \A i \in 0..(req.numTriangles - 1) :
                   InBucketRange(BucketsOf(req)[i])

\* The depths of a request are all within the range epsilon of each other
\* (always so with no triangle or one).
SmallRange(req) ==
    \A i, j \in 0..(req.numTriangles - 1) :
        ZCam(req.centers, req.viewMatrix, i)
            - ZCam(req.centers, req.viewMatrix, j) <= DEPTH_RANGE_EPS

\* C14: when max - min of the depths is at most the range epsilon (all
\* triangles at one depth, T = 1, T = 0), the sorter emits the identity index
\* array 0, 1, ..., 3T-1.
C14_SmallRangeGivesIdentity ==
    \A q \in ResultMessages :
        LET m   == toDriver[q]
            req == RequestOf(m)
        IN  SmallRange(req) =>
               /\ DOMAIN m.preparedIndexArray = 0..(3 * req.numTriangles - 1)
               /\ \A k \in DOMAIN m.preparedIndexArray :
                      m.preparedIndexArray[k] = k

\* The worker has answered a request of three triangles at one depth, not all
\* at one place, with the identity array.
C14_Witness ==
    \E q \in ResultMessages :
        LET m   == toDriver[q]
            req == RequestOf(m)
        IN  /\ req.numTriangles = 3
            /\ SmallRange(req)
            /\ req.centers[0] # req.centers[3]
            /\ m.preparedIndexArray = [k \in 0..8 |-> k]

\* The request req with its triangles listed in the order p: triangle k of
\* the new list is triangle p[k] of req.
PermutedRequest(req, p) ==
    [req EXCEPT !.centers = [k \in DOMAIN req.centers |->
                                req.centers[p[k \div 3] * 3 + (k % 3)]]]

\* The buckets of the triangles of an index array, in the order it lists
\* them.
BucketSequence(req, arr) ==
    [k \in 0..(req.numTriangles - 1) |-> BucketsOf(req)[arr[3 * k] \div 3]]

Permutations0(n) ==
    {p \in [0..(n - 1) -> 0..(n - 1)] :
        \A a, b \in 0..(n - 1) : p[a] = p[b] => a = b}

\* C15: sorting the same triangles listed in another order, under the same
\* model-view matrix, gives the same sequence of depth buckets in the output.
C15_SameDepthOrderWhenPermuted ==
    \A q \in ResultMessages :
        LET m   == toDriver[q]
            req == RequestOf(m)
        IN  \A p \in Permutations0(req.numTriangles) :
                LET req2 == PermutedRequest(req, p)
                IN  BucketSequence(req2,
                        sortAndPrepareIndexBuffer(req2.numTriangles,
                                                  req2.centers,
                                                  req2.viewMatrix))
                      = BucketSequence(req, m.preparedIndexArray)

\* A step in which the worker takes the oldest request.
WorkerStep == toWorker # <<>> /\ toWorker' = Tail(toWorker)

\* C16: every request the worker takes produces exactly one response, a
\* result or an error, and the response carries the requestId of the request:
\* a worker step appends one message with the request's id, no other step
\* appends any, and each posted request is waiting or was taken once.
C16_OneTaggedResponsePerRequest ==
    /\ [][WorkerStep =>
            /\ Len(toDriver') = Len(toDriver) + 1
            /\ SubSeq(toDriver', 1, Len(toDriver)) = toDriver
            /\ toDriver'[Len(toDriver')].requestId = Head(toWorker).requestId
         ]_vars
    /\ [][~WorkerStep => Len(toDriver') <= Len(toDriver)]_vars
    /\ [](/\ Len(posts) = Len(toWorker) + Len(served)
          /\ \A a, b \in 1..Len(served) :
                a < b => served[a].requestId # served[b].requestId)

\* The worker has just answered the second request with an error that
\* carries its id.
C16_Witness ==
    /\ last = "worker"
    /\ Len(served) = 2
    /\ toDriver # <<>>
    /\ toDriver[Len(toDriver)].error # ""
    /\ toDriver[Len(toDriver)].requestId = 2
    /\ served[2].requestId = 2

\* The data record k of a geometry stores for its whole triangle: the three
\* corner positions, the three opacities, their minimum and the three vertex
\* indices.
TriangleWideData(g, k) ==
    [V0 |-> [c \in 0..2 |-> g.aTriangleV0[k * 3 + c]],
     V1 |-> [c \in 0..2 |-> g.aTriangleV1[k * 3 + c]],
     V2 |-> [c \in 0..2 |-> g.aTriangleV2[k * 3 + c]],
     w0 |-> g.aTriangleOpacity0[k],
     w1 |-> g.aTriangleOpacity1[k],
     w2 |-> g.aTriangleOpacity2[k],
     m  |-> g.aTriangleMinWeight[k],
     i0 |-> g.aTriangleVertexIdx0[k],
     i1 |-> g.aTriangleVertexIdx1[k],
     i2 |-> g.aTriangleVertexIdx2[k]]

\* C17: in the built geometry the three records 3i, 3i+1, 3i+2 of every
\* triangle i carry the same V0, V1, V2, the same w0, w1, w2, the same minimum
\* m and the same three vertex indices.
C17_CornersShareTriangleData ==
    meshRef =>
        \A i \in 0..(NumTriangles - 1) : \A j \in 1..2 :
            TriangleWideData(geometry, 3 * i + j)
                = TriangleWideData(geometry, 3 * i)

\* A geometry of two triangles with different data has been built; the
\* corners of the second triangle differ in position and in opacity.
C17_Witness ==
    /\ meshRef
    /\ NumTriangles = 2
    /\ TriangleWideData(geometry, 3) # TriangleWideData(geometry, 0)
    /\ geometry.aOpacity[3] # geometry.aOpacity[4]
    /\ geometry.aOpacity[4] # geometry.aOpacity[5]
    /\ geometry.position[9] # geometry.position[12]

\* C18: the minimum weight stored for a triangle is the least of the
\* opacities of its three vertices, and the geometry the builder returns is
\* the same whatever vertex_weights holds.
C18_MinWeightFromOpacitiesOnly ==
    /\ meshRef =>
          \A i \in 0..(NumTriangles - 1) : \A j \in 0..2 :
              geometry.aTriangleMinWeight[3 * i + j]
                = SetMin({props.opacities[props.triangle_indices[3 * i + c]] :
                             c \in 0..2})
    /\ last = "render" =>
          \A vw \in BuildVertexWeights :
              geometry = createTriangleSplatsGeometry(props.vertices,
                                                      props.triangle_indices,
                                                      props.opacities, vw,
                                                      props.features_dc,
                                                      props.features_rest,
                                                      props.sh_degree)

\* A geometry has been built from props that hold raw weights below every
\* opacity of the first triangle; its minimum weight is a positive opacity.
C18_Witness ==
    /\ meshRef
    /\ NumTriangles >= 1
    /\ props.vertex_weights.present
    /\ \E c \in 0..2 :
          props.vertex_weights.array[props.triangle_indices[c]] < 0
    /\ geometry.aTriangleMinWeight[0] > 0
    /\ geometry.aTriangleMinWeight[0] < OpacityOne

\* C19: the builder unrolls T triangles into 3*T records; record 3i+j has the
\* position of vertex triangle_indices[3i+j] and the barycentric selector
\* that is 1 in component j and 0 in the other two; the index buffer it
\* creates is the identity 0..3T-1.
C19_UnrolledRecords ==
    meshRef =>
        /\ DOMAIN geometry.position = 0..(9 * NumTriangles - 1)
        /\ DOMAIN geometry.aBarycentric = 0..(9 * NumTriangles - 1)
        /\ DOMAIN geometry.aOpacity = 0..(3 * NumTriangles - 1)
        /\ \A i \in 0..(NumTriangles - 1) : \A j, c \in 0..2 :
              /\ geometry.position[(3 * i + j) * 3 + c]
                   = props.vertices[props.triangle_indices[3 * i + j] * 3 + c]
              /\ geometry.aBarycentric[(3 * i + j) * 3 + c]
                   = IF c = j THEN One ELSE 0
        /\ installed = <<>> =>
              geometry.index = [k \in 0..(3 * NumTriangles - 1) |-> k]

\* Two triangles have just been unrolled into six records with the selectors
\* (1,0,0), (0,1,0), (0,0,1), (1,0,0), (0,1,0), (0,0,1).
C19_Witness ==
    /\ last = "render"
    /\ NumTriangles = 2
    /\ geometry.aBarycentric
         = [n \in 0..17 |-> <<One, 0, 0, 0, One, 0, 0, 0, One,
                              One, 0, 0, 0, One, 0, 0, 0, One>>[n + 1]]
    /\ geometry.index = [k \in 0..5 |-> k]
    /\ geometry.position[0] # geometry.position[3]

\* V0 + V1 + V2 of triangle i in coordinate c, from the props.
CornerSum(i, c) ==
    LET v(j) == props.triangle_indices[3 * i + j]
    IN    props.vertices[v(0) * 3 + c] + props.vertices[v(1) * 3 + c]
        + props.vertices[v(2) * 3 + c]

CentersKept ==
    [][meshRef => geometry'.triangleCenters = geometry.triangleCenters]_vars

\* C20 as stated: the centroid table has T entries of 3 scalars, entry i is
\* the arithmetic mean of the three vertex positions of triangle i (3 *
\* centroid = V0 + V1 + V2 per coordinate), and no step of the driver or of
\* the sorter modifies the table once it is built.
C20_CentroidIsExactMean ==
    /\ [](meshRef =>
            /\ DOMAIN geometry.triangleCenters = 0..(3 * NumTriangles - 1)
            /\ \A i \in 0..(NumTriangles - 1) : \A c \in 0..2 :
                  3 * geometry.triangleCenters[3 * i + c] = CornerSum(i, c))
    /\ CentersKept

\* C20 amended: entry i is the mean rounded to single precision, the Float32
\* nearest to (V0 + V1 + V2) / 3 per coordinate; the rest as stated.
C20_CentroidIsRoundedMean ==
    /\ [](meshRef =>
            /\ DOMAIN geometry.triangleCenters = 0..(3 * NumTriangles - 1)
            /\ \A i \in 0..(NumTriangles - 1) : \A c \in 0..2 :
                  LET z  == geometry.triangleCenters[3 * i + c]
                      sp == Float32Spacing(Abs(z))
                  IN  /\ z % sp = 0
                      /\ 2 * Abs(3 * z - CornerSum(i, c)) <= 3 * sp)
    /\ CentersKept

\* A sort result has been installed in a geometry whose first centroid is
\* not the exact mean; the table is as the builder made it.
C20_Witness ==
    /\ meshRef
    /\ installed # <<>>
    /\ NumTriangles = 2
    /\ \E c \in 0..2 : 3 * geometry.triangleCenters[c] # CornerSum(0, c)
    /\ geometry.triangleCenters
         = TriangleCenters(props.vertices, props.triangle_indices, 6)

(***************************************************************************)
(* The builder and its inputs.                                             *)
(***************************************************************************)
\* V, the number of original vertices: vertices.length / 3.
NumOriginalVertices == ArrayLen(props.vertices) \div 3

OpacityCountMismatch == ArrayLen(props.opacities) # NumOriginalVertices

IndexLengthNotTriples == ArrayLen(props.triangle_indices) % 3 # 0

RestSizeMismatch ==
    /\ props.features_rest.present
    /\ ArrayLen(props.features_rest.array)
         # NumOriginalVertices * RestComponentCount(props.sh_degree) * 3

BadInputShape ==
    OpacityCountMismatch \/ IndexLengthNotTriples \/ RestSizeMismatch

\* C21: with a bad input shape (an opacity count that differs from the
\* vertex count, an index array whose length is no multiple of 3, or a
\* features_rest array not sized to V * ((d+1)^2 - 1) * 3) the construction
\* fails: the component holds no geometry.
C21_BadShapeBuildsNothing == BadInputShape => geometry = <<>>

\* The vertex indices stored in record k of the geometry g: aVertexIndex and
\* aTriangleVertexIdx0..2, the arguments of the shader's SH fetches.
StoredVertexIndices(g, k) ==
    { g.aVertexIndex[k], g.aTriangleVertexIdx0[k],
      g.aTriangleVertexIdx1[k], g.aTriangleVertexIdx2[k] }

\* C22: every vertex index stored in a record of the built geometry, the
\* corner's own and the three of its triangle, lies in [0, V), V the number
\* of original vertices: each SH fetch addresses one of the V slots.
C22_StoredIndicesAreVertices ==
    last = "render" =>
        \A k \in DOMAIN geometry.aVertexIndex :
            StoredVertexIndices(geometry, k)
                \subseteq 0..(NumOriginalVertices - 1)

\* The triangles of the built geometry that the vertex stage rejects at the
\* min-opacity gate.
GateRejected ==
    {i \in 0..(NumTriangles - 1) :
        BelowMinWeightGate(geometry.aTriangleMinWeight[3 * i])}

\* The triangles with a vertex opacity below 0.01, that is, of at most
\* 10737418 units of 2^-30.
MinOpacityBelowThreshold ==
    {i \in 0..(NumTriangles - 1) :
        \E c \in 0..2 :
            props.opacities[props.triangle_indices[3 * i + c]]
                < OpacityOne \div 100 + 1}

\* C23: with debug enabled, analyzeTriangleFiltering reports totalTriangles
\* = T, minWeightFiltered = the number of triangles whose minimum vertex
\* opacity is below 0.01, which are exactly the triangles the vertex stage
\* rejects at the min-opacity gate, and filterPercentage = 100 *
\* minWeightFiltered / T (here to the nearest 2^-16).
C23_AnalysisCountsGateRejections ==
    (meshRef /\ last = "analyze debug") =>
        /\ analysis.totalTriangles = NumTriangles
        /\ analysis.minWeightFiltered = Cardinality(MinOpacityBelowThreshold)
        /\ MinOpacityBelowThreshold = GateRejected
        /\ NumTriangles > 0 =>
              2 * Abs(analysis.filterPercentage * NumTriangles
                        - 100 * PercentOne * analysis.minWeightFiltered)
                <= NumTriangles

\* 1 / min(d_last, -1e-4) in the units of vPhiCenterScale: -1e-4 lies
\* between the counts -839 and -838 of d_last.
ClampedReciprocal(d_last) ==
    IF -d_last <= One \div 10000 THEN -(10000 * PhiOne)
    ELSE -FroundDiv(One * PhiOne, -d_last)

\* C24: the vertex stage passes phi_scale = 1 / min(d_last, -1e-4), d_last
\* the signed incenter distance of the last edge: phi_scale is negative and
\* at most 1e4 in magnitude for every d_last <= 0, those between -1e-4 and
\* 0 included.
C24_PhiScaleIsClamped ==
    (last = "vertex" /\ vertexStage.returned = "end") =>
        /\ vertexStage.vPhiCenterScale
             = ClampedReciprocal(vertexStage.lastDist)
        /\ vertexStage.vPhiCenterScale < 0
        /\ -vertexStage.vPhiCenterScale <= 10000 * PhiOne

\* A step that installs a sort result.
Installs == Len(installed') > Len(installed)

\* C25: the index buffer starts as the identity permutation and is
\* rewritten at most once per frame.  Requests are posted by frames only;
\* a step that installs a result installs the result of the request posted
\* last, and every result installed before it was one of an earlier
\* request: a frame that posted lies between any two installs.
C25_AtMostOneInstallPerFrame ==
    /\ [](installed = <<>> =>
            geometry.index = [k \in 0..(3 * NumTriangles - 1) |-> k])
    /\ [][posts' # posts => last' = "frame"]_vars
    /\ [][Installs =>
            /\ last' = "result"
            /\ Len(installed') = Len(installed) + 1
            /\ posts # <<>>
            /\ installed'[Len(installed')] = LastPost.requestId
            /\ \A k \in 1..Len(installed) :
                  installed[k] < LastPost.requestId
         ]_vars

\* The driver has just installed a second result.
C25_Witness ==
    /\ last = "result"
    /\ Len(installed) = 2
    /\ installed[2] = currentRequestIdRef
    /\ ~isSortingRef

\* A worker step that posts a result.
WorkerPostsResult == WorkerStep /\ toDriver'[Len(toDriver')].error = ""

\* C26 as stated: the buffers of both payloads are transferred, so after a
\* send the sender no longer holds the buffer it sent: the driver's centroid
\* table after a request, the worker's index array after a result.
C26_PayloadsTransferredBothWays ==
    /\ [][FramePosts => ArrayLen(geometry'.triangleCenters) = 0]_vars
    /\ [][WorkerPostsResult => ArrayLen(workerArray') = 0]_vars

\* C26, amended: the result is transferred and the request is copied.  After
\* the worker posts a result it holds an index array of length 0 and the
\* message holds the 3*T indices; after the driver posts a request the
\* geometry holds its centroid table as before, equal to the one in the
\* message.
C26_ResultTransferredRequestCopied ==
    /\ [][FramePosts =>
            /\ geometry'.triangleCenters = geometry.triangleCenters
            /\ ArrayLen(geometry'.triangleCenters) = 3 * NumTriangles
            /\ toWorker'[Len(toWorker')].centers = geometry'.triangleCenters
         ]_vars
    /\ [][WorkerPostsResult =>
            /\ ArrayLen(workerArray') = 0
            /\ ArrayLen(toDriver'[Len(toDriver')].preparedIndexArray)
                 = 3 * Head(toWorker).numTriangles
         ]_vars

\* The worker has just posted the result of a request for two triangles or
\* more; the driver holds the centroid table it sent.
C26_Witness ==
    /\ last = "worker"
    /\ toDriver # <<>>
    /\ toDriver[Len(toDriver)].error = ""
    /\ ArrayLen(toDriver[Len(toDriver)].preparedIndexArray) >= 6
    /\ ArrayLen(workerArray) = 0
    /\ served # <<>>
    /\ served[Len(served)].centers = geometry.triangleCenters
    /\ ArrayLen(geometry.triangleCenters) >= 6

\* C27: for a fixed scene instance, every message the driver receives from
\* the worker, result or error, carries the requestId that
\* currentRequestIdRef holds when the message is received: the branch that
\* discards a stale result is never taken.
C27_ReceivedIdIsCurrent ==
    [][Delivery => Head(toDriver).requestId = currentRequestIdRef]_vars

\* The driver has just received the error answer to its second request.
C27_Witness ==
    /\ last = "error"
    /\ currentRequestIdRef = 2
    /\ Len(served) = 2
    /\ served[2].requestId = 2
    /\ toDriver = <<>>
    /\ ~isSortingRef

\* The model-view matrix a request posted now would carry.
ModelViewMatrix == MultiplyMatrices(camera, meshMatrixWorld)

\* C30: the driver's change test covers everything the sort depends on.  In
\* a frame with the mesh and the worker there, no sort in flight and the
\* throttle elapsed, a request is posted whenever the model-view matrix
\* differs from the one sent with the last request, also when only the
\* mesh's world matrix changed.
C30_ChangeTestCoversModelView ==
    [][(/\ last' = "frame"
        /\ meshRef
        /\ workerRef = "worker"
        /\ ~isSortingRef
        /\ toWorker = <<>>
        /\ served # <<>>
        /\ ModelViewMatrix # served[Len(served)].viewMatrix
        /\ now' - lastSortTimeRef > SORT_THROTTLE_MS)
         => FramePosts]_vars

\* C29: when the props change and the geometry is rebuilt while a sort
\* request is in flight, the late result is not written into the new
\* geometry: a result is installed only into the geometry whose centroid
\* table its request carried, and the driver's handler clears the in-flight
\* flag whenever it takes a result, the late one included.
C29_LateResultNotInstalled ==
    /\ [][Installs =>
            RequestOf(Head(toDriver)).centers = geometry.triangleCenters
         ]_vars
    /\ [][ResultDelivery => ~isSortingRef']_vars

\* The index buffer holds what the sorter returns for the centroid table and
\* the model-view matrix of the state.
IndexIsSortedForView ==
    geometry.index = sortAndPrepareIndexBuffer(NumTriangles,
                                               geometry.triangleCenters,
                                               ModelViewMatrix)

\* The throttle is elapsed again and again: time advances.
TimeAdvances == []<>(now - lastSortTimeRef > SORT_THROTTLE_MS)

\* The camera moves, and from some point on it stays where it is.
CameraSettles == <>(last = "camera") /\ <>[][camera' = camera]_vars

\* From some point on the mesh stays where it is, so that there is a final
\* model-view matrix.
MeshSettles == <>[][meshMatrixWorld' = meshMatrixWorld]_vars

\* C28: if frames keep ticking, time advances, the worker answers every
\* request with a result, and the camera moves and then stays fixed, then
\* eventually the index buffer holds the sorter's output for the final
\* model-view matrix, and stays so.
C28_EventuallySortedForFinalView ==
    (TimeAdvances /\ CameraSettles /\ MeshSettles) => <>[]IndexIsSortedForView

====
